---- MODULE Spec2Model ----
(***************************************************************************)
(* The incoming distribution connection of Pyrlang                         *)
(* (Pyrlang/Dist/in_connection.py, class InConnection): the length-        *)
(* prefixed framer, the handshake state machine, the dispatch of 'p'       *)
(* messages to the node, and the outbound 'p' messages, driven by the      *)
(* receive loop of util.make_handler.                                      *)
(*                                                                         *)
(* Bytes objects are sequences of integers 0..255.  A Python value that    *)
(* may be None is a record tagged with its type.  Every handler is an      *)
(* operator from the connection object c (a record of its fields, with the *)
(* log of the effects it had on the socket and on the node) to the         *)
(* connection after the call and the value returned or exception raised.   *)
(***************************************************************************)
EXTENDS Integers, Sequences, FiniteSets, TLC

(***************************************************************************)
(* Bound of the model                                                      *)
(***************************************************************************)
\* what reaches the connection over its life: the returns of sock.recv with
\* data of the peer, and the commands the node puts into inbox_
MaxInputs == 3

(***************************************************************************)
(* Python values                                                           *)
(***************************************************************************)
PyNone == [py |-> "None", n |-> 0, s |-> <<>>]
PyInt(i) == [py |-> "int", n |-> i, s |-> <<>>]
PyStr(cps) == [py |-> "str", n |-> 0, s |-> cps]

\* data[a:b] of a bytes object (0-based, half-open, clamped)
Slice(data, a, b) ==
    LET lo == IF a < Len(data) THEN a ELSE Len(data)
        hi == IF b < Len(data) THEN b ELSE Len(data)
    IN  IF hi <= lo THEN <<>> ELSE SubSeq(data, lo + 1, hi)

\* data[a:]
SliceFrom(data, a) == Slice(data, a, Len(data))

\* bytes.decode("latin1"): byte b is code point b
decode_latin1(data) == PyStr([i \in 1..Len(data) |-> data[i]])

\* bytes(s, "latin1") / bytes(s, "ascii") of a str of code points below 128
encode_str(s) == [i \in 1..Len(s.s) |-> s.s[i] % 256]

RECURSIVE str_int(_)
\* str(n) of a non-negative int, as ASCII bytes: unpadded decimal
str_int(n) == IF n < 10 THEN <<48 + n>>
              ELSE str_int(n \div 10) \o <<48 + (n % 10)>>

\* struct.pack(">H", n)
pack_H(n) == <<(n \div 256) % 256, n % 256>>

\* struct.pack(">I", n)
pack_I(n) == <<(n \div 16777216) % 256, (n \div 65536) % 256,
               (n \div 256) % 256, n % 256>>

\* struct.unpack(">H", b) of exactly two bytes
unpack_H(b) == b[1] * 256 + b[2]

\* struct.unpack(">I", b) of exactly four bytes
unpack_I(b) == b[1] * 16777216 + b[2] * 65536 + b[3] * 256 + b[4]

\* util.u16(data, pos): big-endian unsigned 16 bit at pos; -1 stands for the
\* struct.error raised when fewer than two bytes are there
u16(data, pos) ==
    LET b == Slice(data, pos, pos + 2)
    IN  IF Len(b) = 2 THEN unpack_H(b) ELSE -1

\* util.u32(data, pos): big-endian unsigned 32 bit at pos; -1 stands for the
\* struct.error raised when fewer than four bytes are there
u32(data, pos) ==
    LET b == Slice(data, pos, pos + 4)
    IN  IF Len(b) = 4 THEN unpack_I(b) ELSE -1

(***************************************************************************)
(* hashlib.md5: a 16 byte digest of a byte string.  The model keeps what   *)
(* the connection relies on: the digest is a function of all the bytes, in *)
(* order, and has 16 bytes.                                                *)
(***************************************************************************)
RECURSIVE md5_acc(_, _)
md5_acc(h, bs) ==
    IF bs = <<>> THEN h
    ELSE md5_acc((h * 31 + Head(bs) + 1) % 65521, Tail(bs))

md5(bs) ==
    LET h == md5_acc(7, bs)
    IN  [i \in 1..16 |-> IF i % 2 = 1 THEN ((h % 256) + i) % 256
                                      ELSE ((h \div 256) + i) % 256]

(***************************************************************************)
(* Terms and the external term format (Pyrlang.Dist.etf).  A term is a     *)
(* record: an integer (n), an atom (its name s), a tuple (its elements e), *)
(* a pid (node name s, id n, serial and creation in e) or None.            *)
(***************************************************************************)
TNone == [k |-> "None", n |-> 0, s |-> <<>>, e |-> <<>>]
TInt(i) == [k |-> "int", n |-> i, s |-> <<>>, e |-> <<>>]
TAtom(name) == [k |-> "atom", n |-> 0, s |-> name, e |-> <<>>]
TTuple(elems) == [k |-> "tuple", n |-> 0, s |-> <<>>, e |-> elems]
TPid(node, id, serial, creation) ==
    [k |-> "pid", n |-> id, s |-> node, e |-> <<TInt(serial), TInt(creation)>>]

ETF_VERSION_TAG == 131
TAG_SMALL_INT == 97
TAG_INT == 98
TAG_ATOM_EXT == 100
TAG_PID_EXT == 103
TAG_SMALL_TUPLE_EXT == 104

RECURSIVE term_to_binary_2(_)
RECURSIVE encode_elems(_)
\* the encodings of the elements of a tuple, one after the other
encode_elems(elems) ==
    IF elems = <<>> THEN <<>>
    ELSE term_to_binary_2(Head(elems)) \o encode_elems(Tail(elems))

\* a term's encoding without the leading version tag
term_to_binary_2(t) ==
    CASE t.k = "int" ->
           IF t.n >= 0 /\ t.n <= 255 THEN <<TAG_SMALL_INT, t.n>>
           ELSE <<TAG_INT>> \o pack_I(t.n)
      [] t.k = "atom" -> <<TAG_ATOM_EXT>> \o pack_H(Len(t.s)) \o t.s
      [] t.k = "tuple" ->
           <<TAG_SMALL_TUPLE_EXT, Len(t.e)>> \o encode_elems(t.e)
      [] t.k = "pid" ->
           <<TAG_PID_EXT>> \o term_to_binary_2(TAtom(t.s)) \o pack_I(t.n)
             \o pack_I(t.e[1].n) \o <<t.e[2].n>>
      [] OTHER -> <<>>

\* etf.term_to_binary: term -> bytes
term_to_binary(t) == <<ETF_VERSION_TAG>> \o term_to_binary_2(t)

DecodeFail == [ok |-> FALSE, term |-> TNone, tail |-> <<>>]
DecodeOk(t, rest) == [ok |-> TRUE, term |-> t, tail |-> rest]

RECURSIVE binary_to_term_2(_)
RECURSIVE decode_elems(_, _)
\* n terms read one after the other: [ok, terms, tail]
decode_elems(n, data) ==
    IF n = 0 THEN [ok |-> TRUE, terms |-> <<>>, tail |-> data]
    ELSE LET d == binary_to_term_2(data)
         IN  IF ~d.ok THEN [ok |-> FALSE, terms |-> <<>>, tail |-> <<>>]
             ELSE LET r == decode_elems(n - 1, d.tail)
                  IN  IF ~r.ok THEN r
                      ELSE [ok |-> TRUE, terms |-> <<d.term>> \o r.terms,
                            tail |-> r.tail]

\* one term read from the head of data; fails on an unknown tag or a
\* truncated length
binary_to_term_2(data) ==
    IF data = <<>> THEN DecodeFail
    ELSE CASE data[1] = TAG_SMALL_INT ->
                IF Len(data) < 2 THEN DecodeFail
                ELSE DecodeOk(TInt(data[2]), SliceFrom(data, 2))
           [] data[1] = TAG_INT ->
                IF Len(data) < 5 THEN DecodeFail
                ELSE DecodeOk(TInt(u32(data, 1)), SliceFrom(data, 5))
           [] data[1] = TAG_ATOM_EXT ->
                IF Len(data) < 3 \/ Len(data) < 3 + u16(data, 1) THEN DecodeFail
                ELSE DecodeOk(TAtom(Slice(data, 3, 3 + u16(data, 1))),
                              SliceFrom(data, 3 + u16(data, 1)))
           [] data[1] = TAG_SMALL_TUPLE_EXT ->
                IF Len(data) < 2 THEN DecodeFail
                ELSE LET r == decode_elems(data[2], SliceFrom(data, 2))
                     IN  IF ~r.ok THEN DecodeFail
                         ELSE DecodeOk(TTuple(r.terms), r.tail)
           [] data[1] = TAG_PID_EXT ->
                LET a == binary_to_term_2(SliceFrom(data, 1))
                IN  IF ~a.ok \/ a.term.k # "atom" \/ Len(a.tail) < 9
                    THEN DecodeFail
                    ELSE DecodeOk(TPid(a.term.s, u32(a.tail, 0),
                                       u32(a.tail, 4), a.tail[9]),
                                  SliceFrom(a.tail, 9))
           [] OTHER -> DecodeFail

\* etf.binary_to_term: bytes -> (term, unread tail); ok = FALSE is the
\* exception raised on data that is no term
binary_to_term(data) ==
    IF data = <<>> \/ data[1] # ETF_VERSION_TAG THEN DecodeFail
    ELSE binary_to_term_2(SliceFrom(data, 1))

(***************************************************************************)
(* Constants of the program                                                *)
(***************************************************************************)
CONTROL_TERM_SEND == 2
CONTROL_TERM_REG_SEND == 6
CONTROL_TERM_MONITOR_P == 19
CONTROL_TERM_DEMONITOR_P == 20
CONTROL_TERM_MONITOR_P_EXIT == 21

DISCONNECTED == 0
RECV_NAME == 1
WAIT_CHALLENGE_REPLY == 2
CONNECTED == 3

\* epmd.DIST_VSN, our distribution protocol version
DIST_VSN == 5
\* node_opts_.dflags_, our capability flags
dflags_ == 260
\* node_opts_.cookie_ ("COOKIE")
cookie_ == PyStr(<<67, 79, 79, 75, 73, 69>>)
\* dist_.name_ ("py@127.0.0.1")
name_ == PyStr(<<112, 121, 64, 49, 50, 55, 46, 48, 46, 48, 46, 49>>)

\* ord('n'), ord('r'), 'p', b'a', b"sok"
ord_n == 110
ord_r == 114
ord_p == 112
ord_a == 97
sok == <<115, 111, 107>>

\* the factor of random.random() in my_challenge_: 0x7fffffff
CHALLENGE_RANGE == 2147483647

(***************************************************************************)
(* The effects of the connection on the world, in the order they happen:   *)
(* socket_.sendall(data), Node.singleton.inbox_.put(...), a call of the    *)
(* node (send, monitor_process, demonitor_process) and ERROR(...) lines.   *)
(* Each records the connection's state_ and packet_len_size_ at that time. *)
(***************************************************************************)
Effect(c, op, what, data, name, sess, args) ==
    [op |-> op, what |-> what, data |-> data, name |-> name, sess |-> sess,
     args |-> args, st |-> c.state_, pls |-> c.packet_len_size_]

Emit(c, ev) == [c EXCEPT !.out = Append(@, ev)]

\* socket_.sendall(msg)
sendall(c, msg) == Emit(c, Effect(c, "sendall", "", msg, PyNone, "", <<>>))

\* Node.singleton.inbox_.put(('node_connected', peer_name_, self))
put_node_connected(c) ==
    Emit(c, Effect(c, "put", "node_connected", <<>>, c.peer_name_, "self", <<>>))

\* Node.singleton.inbox_.put(('node_disconnected', peer_name_))
put_node_disconnected(c) ==
    Emit(c, Effect(c, "put", "node_disconnected", <<>>, c.peer_name_, "", <<>>))

\* the_node.<method>(...) with its keyword arguments in the order written
call_node(c, method, args) ==
    Emit(c, Effect(c, "call", method, <<>>, PyNone, "", args))

\* ERROR(...): a line on the terminal
log_ERROR(c, what) == Emit(c, Effect(c, "ERROR", what, <<>>, PyNone, "", <<>>))

(***************************************************************************)
(* What a call gives back: the connection after it, and the value returned *)
(* (True, False, None, or bytes b) or the exception x raised.              *)
(***************************************************************************)
Ret(c, v, b, x) == [c |-> c, v |-> v, b |-> b, x |-> x]
RetTrue(c) == Ret(c, "True", <<>>, "")
RetFalse(c) == Ret(c, "False", <<>>, "")
RetNone(c) == Ret(c, "None", <<>>, "")
RetBytes(c, b) == Ret(c, "bytes", b, "")
Raise(c, x) == Ret(c, "raise", <<>>, x)

(***************************************************************************)
(* class InConnection                                                      *)
(***************************************************************************)
\* __init__: the object after construction
InConnection ==
    [state_ |-> DISCONNECTED,
     packet_len_size_ |-> 2,
     socket_ |-> "None",
     addr_ |-> "None",
     inbox_ |-> <<>>,
     peer_distr_version_ |-> <<PyNone, PyNone>>,
     peer_flags_ |-> 0,
     peer_name_ |-> PyNone,
     my_challenge_ |-> PyNone,
     out |-> <<>>]

on_connected(c, sockt, address) ==
    [c EXCEPT !.state_ = RECV_NAME, !.socket_ = sockt, !.addr_ = address]

\* on_connection_lost that forgets to tell the node
on_connection_lost_silent(c) == [c EXCEPT !.state_ = DISCONNECTED]

on_connection_lost(c) ==
    put_node_disconnected([c EXCEPT !.state_ = DISCONNECTED])

\* _error(msg): log and return False
\* _error that logs and lets the caller go on
_error_continue(c, msg) == RetTrue(log_ERROR(c, msg))

_error(c, msg) == RetFalse(log_ERROR(c, msg))

\* pdv = (MAX, MIN) of the peer against our version
_dist_version_check(pdv) == pdv[1] >= DIST_VSN /\ DIST_VSN >= pdv[2]

_send_packet2(c, content) == sendall(c, pack_H(Len(content)) \o content)

_send_packet4(c, content) == sendall(c, pack_I(Len(content)) \o content)

_send_challenge(c, my_challenge) ==
    _send_packet2(c, <<ord_n>> \o pack_H(DIST_VSN) \o pack_I(dflags_)
                       \o pack_I(my_challenge) \o encode_str(name_))

\* md5(cookie + str(challenge)); the challenge is an int, or None
make_digest(challenge, cookie) ==
    md5(encode_str(cookie)
        \o (IF challenge.py = "int" THEN str_int(challenge.n)
            ELSE <<78, 111, 110, 101>>))

_check_digest(peer_digest, peer_challenge, cookie) ==
    peer_digest = make_digest(peer_challenge, cookie)

_send_challenge_ack(c, peers_challenge, cookie) ==
    _send_packet2(c, <<ord_a>> \o make_digest(PyInt(peers_challenge), cookie))

\* on_packet_recvname telling the node only after the challenge is sent
on_packet_recvname_notify_last(c, data, rnd) ==
    IF Len(data) < 1 THEN Raise(c, "IndexError")
    ELSE IF data[1] # ord_n
    THEN _error(c, "Unexpected packet (expecting RECV_NAME)")
    ELSE IF Len(data) < 3 THEN Raise(c, "IndexError")
    ELSE LET pdv == <<data[2], data[3]>> IN
         IF _dist_version_check(pdv)
         THEN _error(c, "Dist protocol version")
         ELSE LET c1 == [c EXCEPT !.peer_distr_version_ =
                                      <<PyInt(pdv[1]), PyInt(pdv[2])>>]
                  flags == u32(Slice(data, 3, 7), 0)
              IN  IF flags < 0 THEN Raise(c1, "struct.error")
                  ELSE LET c2 == [c1 EXCEPT !.peer_flags_ = flags,
                                            !.peer_name_ =
                                              decode_latin1(SliceFrom(data, 7))]
                           c4 == _send_packet2(c2, sok)
                           c5 == [c4 EXCEPT !.my_challenge_ = PyInt(rnd)]
                           c6 == _send_challenge(c5, c5.my_challenge_.n)
                           c3 == put_node_connected(c6)
                           c7 == [c3 EXCEPT !.state_ = WAIT_CHALLENGE_REPLY]
                       IN  RetTrue(c7)

on_packet_recvname(c, data, rnd) ==
    IF Len(data) < 1 THEN Raise(c, "IndexError")
    ELSE IF data[1] # ord_n
    THEN _error(c, "Unexpected packet (expecting RECV_NAME)")
    ELSE IF Len(data) < 3 THEN Raise(c, "IndexError")
    ELSE LET pdv == <<data[2], data[3]>> IN
         IF _dist_version_check(pdv)
         THEN _error(c, "Dist protocol version")
         ELSE LET c1 == [c EXCEPT !.peer_distr_version_ =
                                      <<PyInt(pdv[1]), PyInt(pdv[2])>>]
                  flags == u32(Slice(data, 3, 7), 0)
              IN  IF flags < 0 THEN Raise(c1, "struct.error")
                  ELSE LET c2 == [c1 EXCEPT !.peer_flags_ = flags,
                                            !.peer_name_ =
                                              decode_latin1(SliceFrom(data, 7))]
                           c3 == put_node_connected(c2)
                           c4 == _send_packet2(c3, sok)
                           c5 == [c4 EXCEPT !.my_challenge_ = PyInt(rnd)]
                           c6 == _send_challenge(c5, c5.my_challenge_.n)
                           c7 == [c6 EXCEPT !.state_ = WAIT_CHALLENGE_REPLY]
                       IN  RetTrue(c7)

\* on_packet_challengereply verifying the digest against the peer's challenge
on_packet_challengereply_peers(c, data) ==
    IF Len(data) < 1 THEN Raise(c, "IndexError")
    ELSE IF data[1] # ord_r
    THEN _error(c, "Unexpected packet (expecting CHALLENGE_REPLY)")
    ELSE LET peers_challenge == u32(data, 1)
             peer_digest == SliceFrom(data, 5)
             my_cookie == cookie_
         IN  IF peers_challenge < 0 THEN Raise(c, "struct.error")
             ELSE IF ~_check_digest(peer_digest, PyInt(peers_challenge), my_cookie)
             THEN _error(c, "Disallowed node connection (check the cookie)")
             ELSE LET c1 == _send_challenge_ack(c, peers_challenge, my_cookie)
                      c2 == [c1 EXCEPT !.packet_len_size_ = 4]
                      c3 == [c2 EXCEPT !.state_ = CONNECTED]
                  IN  RetTrue(c3)

\* on_packet_challengereply sending the acknowledgement before the check
on_packet_challengereply_ack_first(c, data) ==
    IF Len(data) < 1 THEN Raise(c, "IndexError")
    ELSE IF data[1] # ord_r
    THEN _error(c, "Unexpected packet (expecting CHALLENGE_REPLY)")
    ELSE LET peers_challenge == u32(data, 1)
             peer_digest == SliceFrom(data, 5)
             my_cookie == cookie_
         IN  IF peers_challenge < 0 THEN Raise(c, "struct.error")
             ELSE LET c1 == _send_challenge_ack(c, peers_challenge, my_cookie) IN
                  IF ~_check_digest(peer_digest, c.my_challenge_, my_cookie)
                  THEN _error(c1, "Disallowed node connection (check the cookie)")
                  ELSE LET c2 == [c1 EXCEPT !.packet_len_size_ = 4]
                           c3 == [c2 EXCEPT !.state_ = CONNECTED]
                       IN  RetTrue(c3)

on_packet_challengereply(c, data) ==
    IF Len(data) < 1 THEN Raise(c, "IndexError")
    ELSE IF data[1] # ord_r
    THEN _error(c, "Unexpected packet (expecting CHALLENGE_REPLY)")
    ELSE LET peers_challenge == u32(data, 1)
             peer_digest == SliceFrom(data, 5)
             my_cookie == cookie_
         IN  IF peers_challenge < 0 THEN Raise(c, "struct.error")
             ELSE IF ~_check_digest(peer_digest, c.my_challenge_, my_cookie)
             THEN _error(c, "Disallowed node connection (check the cookie)")
             ELSE LET c1 == _send_challenge_ack(c, peers_challenge, my_cookie)
                      c2 == [c1 EXCEPT !.packet_len_size_ = 4]
                      c3 == [c2 EXCEPT !.state_ = CONNECTED]
                  IN  RetTrue(c3)

\* on_passthrough_message taking the receiver from control_term[2]
on_passthrough_message_receiver2(c, control_term, msg_term) ==
    IF control_term.k # "tuple" THEN Raise(c, "DistributionError")
    ELSE IF Len(control_term.e) < 1 THEN Raise(c, "IndexError")
    ELSE LET ctrl_msg_type == control_term.e[1]
             is(tag) == ctrl_msg_type.k = "int" /\ ctrl_msg_type.n = tag
         IN  IF is(CONTROL_TERM_SEND) \/ is(CONTROL_TERM_REG_SEND)
             THEN IF Len(control_term.e) < 3 THEN Raise(c, "IndexError")
                  ELSE RetNone(call_node(c, "send",
                           <<control_term.e[2], control_term.e[3], msg_term>>))
             ELSE IF is(CONTROL_TERM_MONITOR_P)
             THEN IF Len(control_term.e) # 4 THEN Raise(c, "ValueError")
                  ELSE RetNone(call_node(c, "monitor_process",
                           <<control_term.e[2], control_term.e[3]>>))
             ELSE IF is(CONTROL_TERM_DEMONITOR_P)
             THEN IF Len(control_term.e) # 4 THEN Raise(c, "ValueError")
                  ELSE RetNone(call_node(c, "demonitor_process",
                           <<control_term.e[2], control_term.e[3]>>))
             ELSE RetNone(log_ERROR(c, "Unhandled 'p' message"))

\* staticmethod: on a 'p' message with control and data, call the node
on_passthrough_message(c, control_term, msg_term) ==
    IF control_term.k # "tuple" THEN Raise(c, "DistributionError")
    ELSE IF Len(control_term.e) < 1 THEN Raise(c, "IndexError")
    ELSE LET ctrl_msg_type == control_term.e[1]
             is(tag) == ctrl_msg_type.k = "int" /\ ctrl_msg_type.n = tag
         IN  IF is(CONTROL_TERM_SEND) \/ is(CONTROL_TERM_REG_SEND)
             THEN IF Len(control_term.e) < 4 THEN Raise(c, "IndexError")
                  ELSE RetNone(call_node(c, "send",
                           <<control_term.e[2], control_term.e[4], msg_term>>))
             ELSE IF is(CONTROL_TERM_MONITOR_P)
             THEN IF Len(control_term.e) # 4 THEN Raise(c, "ValueError")
                  ELSE RetNone(call_node(c, "monitor_process",
                           <<control_term.e[2], control_term.e[3]>>))
             ELSE IF is(CONTROL_TERM_DEMONITOR_P)
             THEN IF Len(control_term.e) # 4 THEN Raise(c, "ValueError")
                  ELSE RetNone(call_node(c, "demonitor_process",
                           <<control_term.e[2], control_term.e[3]>>))
             ELSE RetNone(log_ERROR(c, "Unhandled 'p' message"))

\* on_packet_connected answering a keepalive with a 2 byte prefix
on_packet_connected_keepalive2(c, data) ==
    IF data = <<>> THEN RetTrue(_send_packet2(c, <<>>))
    ELSE IF data[1] = ord_p
    THEN LET d1 == binary_to_term(SliceFrom(data, 1)) IN
         IF ~d1.ok THEN Raise(c, "ETFDecodeException")
         ELSE LET d2 == binary_to_term(d1.tail) IN
              IF d1.tail # <<>> /\ ~d2.ok THEN Raise(c, "ETFDecodeException")
              ELSE LET msg_term == IF d1.tail # <<>> THEN d2.term ELSE TNone
                       r == on_passthrough_message(c, d1.term, msg_term)
                   IN  IF r.v = "raise" THEN r ELSE RetTrue(r.c)
    ELSE _error(c, "Unexpected dist message type")

\* on_packet_connected returning what on_passthrough_message returns
on_packet_connected_return_dispatch(c, data) ==
    IF data = <<>> THEN RetTrue(_send_packet4(c, <<>>))
    ELSE IF data[1] = ord_p
    THEN LET d1 == binary_to_term(SliceFrom(data, 1)) IN
         IF ~d1.ok THEN Raise(c, "ETFDecodeException")
         ELSE LET d2 == binary_to_term(d1.tail) IN
              IF d1.tail # <<>> /\ ~d2.ok THEN Raise(c, "ETFDecodeException")
              ELSE LET msg_term == IF d1.tail # <<>> THEN d2.term ELSE TNone
                   IN  on_passthrough_message(c, d1.term, msg_term)
    ELSE _error(c, "Unexpected dist message type")

on_packet_connected(c, data) ==
    IF data = <<>> THEN RetTrue(_send_packet4(c, <<>>))
    ELSE IF data[1] = ord_p
    THEN LET d1 == binary_to_term(SliceFrom(data, 1)) IN
         IF ~d1.ok THEN Raise(c, "ETFDecodeException")
         ELSE LET d2 == binary_to_term(d1.tail) IN
              IF d1.tail # <<>> /\ ~d2.ok THEN Raise(c, "ETFDecodeException")
              ELSE LET msg_term == IF d1.tail # <<>> THEN d2.term ELSE TNone
                       r == on_passthrough_message(c, d1.term, msg_term)
                   IN  IF r.v = "raise" THEN r ELSE RetTrue(r.c)
    ELSE _error(c, "Unexpected dist message type")

\* on_packet that takes every stage before WAIT_CHALLENGE_REPLY for RECV_NAME
on_packet_from_any_stage(c, data, rnd) ==
    IF c.state_ = WAIT_CHALLENGE_REPLY THEN on_packet_challengereply(c, data)
    ELSE IF c.state_ = CONNECTED THEN on_packet_connected(c, data)
    ELSE on_packet_recvname(c, data, rnd)

on_packet(c, data, rnd) ==
    IF c.state_ = RECV_NAME THEN on_packet_recvname(c, data, rnd)
    ELSE IF c.state_ = WAIT_CHALLENGE_REPLY
    THEN on_packet_challengereply(c, data)
    ELSE IF c.state_ = CONNECTED THEN on_packet_connected(c, data)
    ELSE RetNone(c)

\* consume that does not wait for the bytes the prefix declares
consume_no_wait(c, data, rnd) ==
    IF Len(data) < c.packet_len_size_ THEN RetBytes(c, data)
    ELSE LET pkt_size == IF c.packet_len_size_ = 2 THEN u16(data, 0)
                         ELSE u32(data, 0)
             offset == IF c.packet_len_size_ = 2 THEN 2 ELSE 4
             packet == Slice(data, offset, offset + pkt_size)
             r == on_packet(c, packet, rnd)
         IN  IF r.v = "raise" THEN r
             ELSE IF r.v = "True"
             THEN RetBytes(r.c, SliceFrom(data, offset + pkt_size))
             ELSE RetNone(r.c)

\* consume that throws away what follows the frame it handled
consume_drop_rest(c, data, rnd) ==
    IF Len(data) < c.packet_len_size_ THEN RetBytes(c, data)
    ELSE LET pkt_size == IF c.packet_len_size_ = 2 THEN u16(data, 0)
                         ELSE u32(data, 0)
             offset == IF c.packet_len_size_ = 2 THEN 2 ELSE 4
         IN  IF Len(data) < c.packet_len_size_ + pkt_size
             THEN RetBytes(c, data)
             ELSE LET packet == Slice(data, offset, offset + pkt_size)
                      r == on_packet(c, packet, rnd)
                  IN  IF r.v = "raise" THEN r
                      ELSE IF r.v = "True" THEN RetBytes(r.c, <<>>)
                      ELSE RetNone(r.c)

consume(c, data, rnd) ==
    IF Len(data) < c.packet_len_size_ THEN RetBytes(c, data)
    ELSE LET pkt_size == IF c.packet_len_size_ = 2 THEN u16(data, 0)
                         ELSE u32(data, 0)
             offset == IF c.packet_len_size_ = 2 THEN 2 ELSE 4
         IN  IF Len(data) < c.packet_len_size_ + pkt_size
             THEN RetBytes(c, data)
             ELSE LET packet == Slice(data, offset, offset + pkt_size)
                      r == on_packet(c, packet, rnd)
                  IN  IF r.v = "raise" THEN r
                      ELSE IF r.v = "True"
                      THEN RetBytes(r.c, SliceFrom(data, offset + pkt_size))
                      ELSE RetNone(r.c)

_control_term_send(dst) ==
    TTuple(<<TInt(CONTROL_TERM_SEND), TAtom(<<>>), dst>>)

_control_message(c, ctrl, msg) ==
    LET packet == IF msg = TNone THEN <<ord_p>> \o term_to_binary(ctrl)
                  ELSE <<ord_p>> \o term_to_binary(ctrl) \o term_to_binary(msg)
    IN  _send_packet4(c, packet)

\* m = (m[0], ...): a command of the node, m.tag its first element
handle_one_inbox_message(c, m) ==
    IF m.tag = "send"
    THEN IF Len(m.args) # 2 THEN Raise(c, "ValueError")
         ELSE LET dst == m.args[1]
                  msg == m.args[2]
                  ctrl == _control_term_send(dst)
              IN  RetNone(_control_message(c, ctrl, msg))
    ELSE IF m.tag = "monitor_p_exit"
    THEN IF Len(m.args) # 4 THEN Raise(c, "ValueError")
         ELSE LET ctrl == TTuple(<<TInt(CONTROL_TERM_MONITOR_P_EXIT)>> \o m.args)
              IN  RetNone(_control_message(c, ctrl, TNone))
    ELSE RetNone(log_ERROR(c, "Connection: Unhandled message to InConnection"))

(***************************************************************************)
(* The peer: what it may write on the connection.  Its frames are built    *)
(* from the wire format, not by the connection's own handlers.             *)
(***************************************************************************)
Frame2(content) == pack_H(Len(content)) \o content
Frame4(content) == pack_I(Len(content)) \o content

\* (max, min) version bytes of a NAME frame: below, around and above DIST_VSN
PeerVersions == {<<0, 5>>, <<5, 5>>, <<9, 6>>}
PeerFlags == {16909060}
\* "foo@h"
PeerNames == {<<102, 111, 111, 64, 104>>}
\* the values int(random.random() * 0x7fffffff) may take: a small one and the
\* largest
RandomChallenges == {10, CHALLENGE_RANGE - 1}
PeerChallenges == {305419896}
\* the cookie the peer was started with: ours, or "BAD"
PeerCookies == {cookie_, PyStr(<<66, 65, 68>>)}

\* the digest an Erlang node computes: MD5 of cookie and decimal challenge
PeerDigest(challenge, cookie) == md5(cookie.s \o str_int(challenge))

NameFrame(v, f, nm) == Frame2(<<ord_n, v[1], v[2]>> \o pack_I(f) \o nm)

\* NAME frames with every version pair, and two with an empty name
NameFrames ==
    {NameFrame(v, f, nm) : v \in PeerVersions, f \in PeerFlags, nm \in PeerNames}
    \cup {NameFrame(<<0, 5>>, 0, <<>>), NameFrame(<<5, 5>>, 0, <<>>)}

\* CHALLENGE_REPLY frames: the digest of our challenge or of the peer's own,
\* with either cookie; and one without a digest
ReplyFrames ==
    {Frame2(<<ord_r>> \o pack_I(pch) \o PeerDigest(ch, ck)) :
        pch \in PeerChallenges, ch \in RandomChallenges \cup PeerChallenges,
        ck \in PeerCookies}
    \cup {Frame2(<<ord_r>> \o pack_I(pch)) : pch \in PeerChallenges}

\* an empty frame, a frame of an unknown type, truncated NAME and REPLY frames
OddFrames2 ==
    {Frame2(<<>>), Frame2(<<120>>), Frame2(<<ord_n>>),
     Frame2(<<ord_n, 0, 5>>), Frame2(<<ord_r, 0>>)}

Pid1 == TPid(<<101, 64, 104>>, 1, 0, 0)
Pid2 == TPid(<<112, 121, 64, 104>>, 2, 0, 3)
\* stands for a reference: a term the connection only passes on
Ref1 == TInt(70000)
AtomEmpty == TAtom(<<>>)
AtomHello == TAtom(<<104, 101, 108, 108, 111>>)
AtomShell == TAtom(<<115, 104, 101, 108, 108>>)
AtomNormal == TAtom(<<110, 111, 114, 109, 97, 108>>)

CtrlSend == TTuple(<<TInt(CONTROL_TERM_SEND), Pid1, AtomEmpty, Pid2>>)
CtrlRegSend == TTuple(<<TInt(CONTROL_TERM_REG_SEND), Pid1, AtomEmpty, AtomShell>>)
CtrlMonitor == TTuple(<<TInt(CONTROL_TERM_MONITOR_P), Pid1, Pid2, Ref1>>)
CtrlDemonitor == TTuple(<<TInt(CONTROL_TERM_DEMONITOR_P), Pid1, Pid2, Ref1>>)
CtrlMonitorExit ==
    TTuple(<<TInt(CONTROL_TERM_MONITOR_P_EXIT), Pid1, Pid2, Ref1, AtomNormal>>)
\* control tuples of tags the connection has no branch for
CtrlLink == TTuple(<<TInt(1), Pid1, Pid2>>)
CtrlAtomTag == TTuple(<<AtomShell, Pid1>>)
\* control terms of a wrong shape
CtrlSendShort == TTuple(<<TInt(CONTROL_TERM_SEND), AtomEmpty, Pid2>>)
CtrlMonitorShort == TTuple(<<TInt(CONTROL_TERM_MONITOR_P), Pid1, Pid2>>)
CtrlEmptyTuple == TTuple(<<>>)

\* 'p' frames: control term, then a payload term or nothing
PassThrough(ctrl, msg) ==
    Frame4(<<ord_p>> \o term_to_binary(ctrl)
           \o (IF msg = TNone THEN <<>> ELSE term_to_binary(msg)))

GoodFrames4 ==
    {PassThrough(CtrlSend, AtomHello), PassThrough(CtrlSend, TNone),
     PassThrough(CtrlRegSend, Pid1),
     PassThrough(CtrlMonitor, TNone), PassThrough(CtrlDemonitor, TNone),
     PassThrough(CtrlMonitorExit, TNone),
     PassThrough(CtrlLink, AtomHello), PassThrough(CtrlAtomTag, TNone)}

OddFrames4 ==
    {PassThrough(AtomHello, TNone), PassThrough(TInt(CONTROL_TERM_SEND), AtomHello),
     PassThrough(CtrlSendShort, AtomHello), PassThrough(CtrlMonitorShort, TNone),
     PassThrough(CtrlEmptyTuple, TNone),
     Frame4(<<ord_p>>), Frame4(<<ord_p, ETF_VERSION_TAG, 200>>),
     Frame4(<<ord_p>> \o term_to_binary(CtrlLink) \o <<1>>),
     Frame4(<<120, 1>>)}

KeepAlive == Frame4(<<>>)

PeerFrames ==
    NameFrames \cup ReplyFrames \cup OddFrames2
      \cup {KeepAlive} \cup GoodFrames4 \cup OddFrames4

\* the frames that sock.recv may return cut in two, or with a second frame
\* behind them
SplitFrames ==
    {NameFrame(<<0, 5>>, 16909060, <<102, 111, 111, 64, 104>>), KeepAlive,
     PassThrough(CtrlSend, AtomHello)}
    \cup {Frame2(<<ord_r>> \o pack_I(pch) \o PeerDigest(ch, cookie_)) :
            pch \in PeerChallenges, ch \in RandomChallenges}

\* the frames that may follow another one in the same sock.recv
BurstFrames == {KeepAlive, PassThrough(CtrlSend, AtomHello), Frame2(<<120>>)}

\* frames that reach consume after the connection was lost: one with a
\* 2 byte prefix and one with a 4 byte prefix
LateFrames ==
    {NameFrame(<<0, 5>>, 16909060, <<102, 111, 111, 64, 104>>),
     PassThrough(CtrlSend, AtomHello)}

\* where the TCP stream may cut a frame: inside a 2 byte prefix, inside a
\* 4 byte prefix, and after the prefix
SplitPoints == {1, 3, 5}

(***************************************************************************)
(* The node: the commands it may put into the connection's inbox_          *)
(***************************************************************************)
Cmd(tag, args) == [tag |-> tag, args |-> args]
NoCmd == Cmd("", <<>>)
NodeCommands ==
    {Cmd("send", <<Pid1, AtomHello>>), Cmd("send", <<AtomShell, TNone>>),
     Cmd("monitor_p_exit", <<Pid2, Pid1, Ref1, AtomNormal>>),
     Cmd("exit", <<Pid1>>)}

(***************************************************************************)
(* State: the connection object, and the receive loop around it            *)
(* (util.make_handler): the bytes collected from the socket, where the     *)
(* loop is, and what the last step called.                                 *)
(***************************************************************************)
VARIABLES self, collected, dirty, pc, pending, ninputs, last

vars == <<self, collected, dirty, pc, pending, ninputs, last>>

NoRet == [v |-> "", b |-> <<>>, x |-> ""]
Called(op, pre, data, m, r) ==
    [op |-> op, pre |-> pre, data |-> data, m |-> m,
     ret |-> [v |-> r.v, b |-> r.b, x |-> r.x]]

Init ==
    /\ self = InConnection
    /\ collected = <<>>
    /\ dirty = FALSE
    /\ pc = "accept"
    /\ pending = <<>>
    /\ ninputs = 0
    /\ last = Called("init", InConnection, <<>>, NoCmd, NoRet)

\* the connection has been accepted
OnConnected ==
    /\ pc = "accept"
    /\ self' = on_connected(self, "sock", "addr")
    /\ pc' = "run"
    /\ last' = Called("on_connected", self, <<>>, NoCmd, NoRet)
    /\ UNCHANGED <<collected, dirty, pending, ninputs>>

\* sock.recv: a whole frame of the peer arrives
RecvFrame ==
    /\ pc = "run" /\ ~dirty /\ pending = <<>> /\ ninputs < MaxInputs
    /\ \E f \in PeerFrames : collected' = collected \o f
    /\ dirty' = TRUE
    /\ ninputs' = ninputs + 1
    /\ last' = Called("recv", self, <<>>, NoCmd, NoRet)
    /\ UNCHANGED <<self, pc, pending>>

\* sock.recv: the first bytes of a frame arrive, the rest is still under way
RecvPart ==
    /\ pc = "run" /\ ~dirty /\ pending = <<>> /\ ninputs < MaxInputs
    /\ \E f \in SplitFrames : \E k \in SplitPoints :
          /\ k < Len(f)
          /\ collected' = collected \o Slice(f, 0, k)
          /\ pending' = SliceFrom(f, k)
    /\ dirty' = TRUE
    /\ ninputs' = ninputs + 1
    /\ last' = Called("recv", self, <<>>, NoCmd, NoRet)
    /\ UNCHANGED <<self, pc>>

\* sock.recv: the rest of the frame arrives
RecvRest ==
    /\ pc = "run" /\ ~dirty /\ pending # <<>> /\ ninputs < MaxInputs
    /\ collected' = collected \o pending
    /\ pending' = <<>>
    /\ dirty' = TRUE
    /\ ninputs' = ninputs + 1
    /\ last' = Called("recv", self, <<>>, NoCmd, NoRet)
    /\ UNCHANGED <<self, pc>>

\* sock.recv: two frames of the peer arrive at once
RecvBurst ==
    /\ pc = "run" /\ ~dirty /\ pending = <<>> /\ ninputs < MaxInputs
    /\ \E f \in SplitFrames : \E g \in BurstFrames :
          collected' = collected \o f \o g
    /\ dirty' = TRUE
    /\ ninputs' = ninputs + 1
    /\ last' = Called("recv", self, <<>>, NoCmd, NoRet)
    /\ UNCHANGED <<self, pc, pending>>

\* one receiver.consume(collected): in the loop, where None or an exception
\* ends the loop and an unchanged buffer sends it back to recv; or on a
\* connection that has been lost
Consume ==
    /\ pc \in {"run", "closed"} /\ dirty
    /\ \E rnd \in RandomChallenges :
         LET r == consume(self, collected, rnd) IN
         /\ self' = r.c
         /\ last' = Called("consume", self, collected, NoCmd, r)
         /\ pc' = IF pc = "closed" THEN "closed"
                  ELSE IF r.v = "bytes" THEN "run" ELSE "closing"
         /\ collected' = IF r.v = "bytes" THEN r.b ELSE collected
         /\ dirty' = (r.v = "bytes" /\ r.b # collected)
    /\ UNCHANGED <<pending, ninputs>>

\* the node, which knows the connection from node_connected, asks it to
\* send something
Enqueue ==
    /\ pc = "run" /\ ~dirty /\ ninputs < MaxInputs
    /\ \E i \in 1..Len(self.out) : self.out[i].what = "node_connected"
    /\ \E m \in NodeCommands : self' = [self EXCEPT !.inbox_ = Append(@, m)]
    /\ ninputs' = ninputs + 1
    /\ last' = Called("inbox_.put", self, <<>>, NoCmd, NoRet)
    /\ UNCHANGED <<collected, dirty, pc, pending>>

\* the loop, with nothing to read, takes one command from inbox_
HandleInbox ==
    /\ pc = "run" /\ ~dirty /\ self.inbox_ # <<>>
    /\ LET m == Head(self.inbox_)
           r == handle_one_inbox_message([self EXCEPT !.inbox_ = Tail(@)], m)
       IN  /\ self' = r.c
           /\ last' = Called("handle_one_inbox_message", self, <<>>, m, r)
           /\ pc' = IF r.v = "raise" THEN "closing" ELSE "run"
    /\ UNCHANGED <<collected, dirty, pending, ninputs>>

\* sock.recv: the peer has closed the socket, or the socket fails
SocketClosed ==
    /\ pc = "run" /\ ~dirty
    /\ pc' = "closing"
    /\ last' = Called("socket closed", self, <<>>, NoCmd, NoRet)
    /\ UNCHANGED <<self, collected, dirty, pending, ninputs>>

\* the loop has ended: the socket is closed and the connection told
OnConnectionLost ==
    /\ pc = "closing"
    /\ self' = on_connection_lost(self)
    /\ pc' = "closed"
    /\ last' = Called("on_connection_lost", self, <<>>, NoCmd, NoRet)
    /\ UNCHANGED <<collected, dirty, pending, ninputs>>

\* bytes are still at hand after on_connection_lost has put the connection
\* into DISCONNECTED, and are given to consume
DataAfterLost ==
    /\ pc = "closed" /\ ~dirty /\ ninputs < MaxInputs
    /\ \E f \in LateFrames : collected' = f
    /\ dirty' = TRUE
    /\ ninputs' = ninputs + 1
    /\ last' = Called("recv", self, <<>>, NoCmd, NoRet)
    /\ UNCHANGED <<self, pc, pending>>

Next ==
    \/ OnConnected
    \/ RecvFrame
    \/ RecvPart
    \/ RecvRest
    \/ RecvBurst
    \/ Consume
    \/ Enqueue
    \/ HandleInbox
    \/ SocketClosed
    \/ OnConnectionLost
    \/ DataAfterLost

Spec == Init /\ [][Next]_vars

(***************************************************************************)
(* Definitions used to state the properties.  They read the wire format    *)
(* directly, not through the connection's handlers.                        *)
(***************************************************************************)
\* the length a prefix of w bytes declares
PrefixLen(data, w) ==
    IF w = 2 THEN data[1] * 256 + data[2]
    ELSE ((data[1] * 256 + data[2]) * 256 + data[3]) * 256 + data[4]

\* data starts with a complete frame of prefix width w
HasFrame(data, w) == Len(data) >= w /\ Len(data) >= w + PrefixLen(data, w)

\* the content of that frame, and the bytes after it
FramePacket(data, w) == SubSeq(data, w + 1, w + PrefixLen(data, w))
AfterFrame(data, w) == SubSeq(data, w + PrefixLen(data, w) + 1, Len(data))

\* the effects of the last call, in order
NewEffects == SubSeq(self.out, Len(last.pre.out) + 1, Len(self.out))

\* an effect as it is logged
SentAs(data, st, pls) ==
    [op |-> "sendall", what |-> "", data |-> data, name |-> PyNone,
     sess |-> "", args |-> <<>>, st |-> st, pls |-> pls]
PutAs(what, name, sess, st, pls) ==
    [op |-> "put", what |-> what, data |-> <<>>, name |-> name,
     sess |-> sess, args |-> <<>>, st |-> st, pls |-> pls]
CallAs(method, args, st, pls) ==
    [op |-> "call", what |-> method, data |-> <<>>, name |-> PyNone,
     sess |-> "", args |-> args, st |-> st, pls |-> pls]

Only(effects, op) == SelectSeq(effects, LAMBDA ev : ev.op = op)
Puts(effects, what) ==
    SelectSeq(effects, LAMBDA ev : ev.op = "put" /\ ev.what = what)

\* the last step was consume on a buffer that starts with a complete frame,
\* called in stage st
ConsumedFrameIn(st) ==
    /\ last.op = "consume"
    /\ last.pre.state_ = st
    /\ HasFrame(last.data, last.pre.packet_len_size_)

LastPacket == FramePacket(last.data, last.pre.packet_len_size_)
LastRest == AfterFrame(last.data, last.pre.packet_len_size_)

\* the CHALLENGE frame carrying challenge ch
ChallengeFrame(ch) ==
    Frame2(<<ord_n>> \o pack_H(DIST_VSN) \o pack_I(dflags_) \o pack_I(ch)
           \o name_.s)

\* a CHALLENGE frame, a CHALLENGE_ACK frame on the socket
IsChallenge(ev) ==
    ev.op = "sendall" /\ Len(ev.data) >= 3 /\ ev.data[1] = 0 /\ ev.data[3] = ord_n
IsAck(ev) ==
    ev.op = "sendall" /\ Len(ev.data) >= 3 /\ ev.data[1] = 0 /\ ev.data[3] = ord_a

\* the last step was consume, in CONNECTED, on a 'p' frame whose control term
\* and payload (if any bytes follow the control term) are terms
ConsumedPassThrough ==
    /\ ConsumedFrameIn(CONNECTED)
    /\ last.pre.packet_len_size_ = 4
    /\ LastPacket # <<>>
    /\ LastPacket[1] = ord_p
    /\ binary_to_term(SubSeq(LastPacket, 2, Len(LastPacket))).ok
    /\ LET tail == binary_to_term(SubSeq(LastPacket, 2, Len(LastPacket))).tail
       IN  tail = <<>> \/ binary_to_term(tail).ok

\* its control term and its payload term
LastControl == binary_to_term(SubSeq(LastPacket, 2, Len(LastPacket))).term
LastPayload ==
    LET tail == binary_to_term(SubSeq(LastPacket, 2, Len(LastPacket))).tail
    IN  IF tail = <<>> THEN TNone ELSE binary_to_term(tail).term

\* the control term is a tuple whose first element is the integer tag
HasTag(ctrl, tag) ==
    ctrl.k = "tuple" /\ Len(ctrl.e) >= 1 /\ ctrl.e[1].k = "int" /\ ctrl.e[1].n = tag

\* the ack was sent: the handshake was completed on this connection
Established == \E i \in 1..Len(self.out) : IsAck(self.out[i])

\* the fields of the connection are those before the last call
FieldsUnchanged ==
    /\ self.state_ = last.pre.state_
    /\ self.packet_len_size_ = last.pre.packet_len_size_
    /\ self.peer_name_ = last.pre.peer_name_
    /\ self.peer_flags_ = last.pre.peer_flags_
    /\ self.peer_distr_version_ = last.pre.peer_distr_version_
    /\ self.my_challenge_ = last.pre.my_challenge_

(***************************************************************************)
(* Properties                                                              *)
(***************************************************************************)
\* C1: the stage becomes CONNECTED only in consume, on a frame 'r',
\* peer_challenge, peer_digest whose peer_digest is the digest of cookie_
\* and of my_challenge_, the challenge the CHALLENGE frame sent carried; the
\* one thing sent then is the CHALLENGE_ACK with the digest of cookie_ and of
\* the peer_challenge of that frame.
C1_ConnectedOnlyOnValidReply ==
    (self.state_ = CONNECTED /\ last.pre.state_ # CONNECTED) =>
        /\ ConsumedFrameIn(WAIT_CHALLENGE_REPLY)
        /\ last.pre.packet_len_size_ = 2
        /\ Len(LastPacket) = 21
        /\ LastPacket[1] = ord_r
        /\ last.pre.my_challenge_.py = "int"
        /\ SubSeq(LastPacket, 6, 21)
             = PeerDigest(last.pre.my_challenge_.n, cookie_)
        /\ \E i \in 1..Len(last.pre.out) : IsChallenge(last.pre.out[i])
        /\ \A i \in 1..Len(last.pre.out) :
              IsChallenge(last.pre.out[i]) =>
                  last.pre.out[i].data = ChallengeFrame(last.pre.my_challenge_.n)
        /\ Len(NewEffects) = 1
        /\ NewEffects[1].op = "sendall"
        /\ NewEffects[1].data
             = Frame2(<<ord_a>>
                      \o PeerDigest(PrefixLen(SubSeq(LastPacket, 2, 5), 4),
                                    cookie_))

\* C1 happens: a CHALLENGE_REPLY has just connected the peer
C1_Witness ==
    /\ ConsumedFrameIn(WAIT_CHALLENGE_REPLY)
    /\ self.state_ = CONNECTED
    /\ LastPacket[1] = ord_r

\* C2: a CHALLENGE_REPLY whose digest is not that of cookie_ and
\* my_challenge_ makes consume return None; nothing is sent, the stage and
\* the prefix width of 2 stay; and when the loop has then called
\* on_connection_lost, the node has been put node_connected(peer_name_, self)
\* and then node_disconnected(peer_name_), and nothing else.
C2_DigestMismatchCloses ==
    /\ ( /\ ConsumedFrameIn(WAIT_CHALLENGE_REPLY)
         /\ Len(LastPacket) >= 5
         /\ LastPacket[1] = ord_r
         /\ SubSeq(LastPacket, 6, Len(LastPacket))
              # PeerDigest(last.pre.my_challenge_.n, cookie_) )
       => /\ last.ret.v = "None"
          /\ Only(NewEffects, "sendall") = <<>>
          /\ Only(NewEffects, "put") = <<>>
          /\ self.state_ = WAIT_CHALLENGE_REPLY
          /\ self.packet_len_size_ = 2
          /\ pc = "closing"
    /\ ( /\ last.op = "on_connection_lost"
         /\ last.pre.out # <<>>
         /\ last.pre.out[Len(last.pre.out)].what
              = "Disallowed node connection (check the cookie)" )
       => /\ Only(self.out, "put")
               = <<PutAs("node_connected", self.peer_name_, "self", RECV_NAME, 2),
                   PutAs("node_disconnected", self.peer_name_, "", DISCONNECTED, 2)>>
          /\ self.peer_name_.py = "str"
          /\ \A i \in 1..Len(self.out) : ~IsAck(self.out[i])

\* C2 happens: the connection was lost after a digest mismatch
C2_Witness ==
    /\ last.op = "on_connection_lost"
    /\ last.pre.state_ = WAIT_CHALLENGE_REPLY
    /\ last.pre.out[Len(last.pre.out)].what
         = "Disallowed node connection (check the cookie)"
    /\ pc = "closed"

\* C3 (as claimed): in RECV_NAME a NAME frame with version pair (peer_max,
\* peer_min) is accepted iff peer_max >= DIST_VSN >= peer_min; when the pair
\* does not bracket DIST_VSN, consume returns None, nothing is sent, the
\* node is not put node_connected and the stage stays RECV_NAME.
C3_VersionBracketAccepted ==
    ( /\ ConsumedFrameIn(RECV_NAME)
      /\ Len(LastPacket) >= 7
      /\ LastPacket[1] = ord_n )
    => LET brackets == LastPacket[2] >= DIST_VSN /\ DIST_VSN >= LastPacket[3]
           accepted == last.ret.v = "bytes" /\ self.state_ = WAIT_CHALLENGE_REPLY
       IN  /\ accepted <=> brackets
           /\ ~brackets =>
                 /\ last.ret.v = "None"
                 /\ Only(NewEffects, "sendall") = <<>>
                 /\ Only(NewEffects, "put") = <<>>
                 /\ self.state_ = RECV_NAME

\* C4: when consume takes the stage from RECV_NAME to WAIT_CHALLENGE_REPLY,
\* what it did is, in this order and all while the stage was RECV_NAME and
\* the prefix width 2: put node_connected(peer_name_, self) to the node,
\* send "sok" with a 2 byte prefix, send the CHALLENGE frame carrying
\* my_challenge_ with a 2 byte prefix.  When it takes the stage to CONNECTED,
\* it sent the CHALLENGE_ACK with a 2 byte prefix while the stage was
\* WAIT_CHALLENGE_REPLY and the width 2, and the width is 4 afterwards.  The
\* node is put node_connected at most once, and once when the handshake is
\* through.
C4_HandshakeOrder ==
    /\ (last.op = "consume" /\ last.pre.state_ = RECV_NAME
          /\ self.state_ = WAIT_CHALLENGE_REPLY)
       => /\ self.peer_name_ = PyStr(SubSeq(LastPacket, 8, Len(LastPacket)))
          /\ self.my_challenge_.py = "int"
          /\ NewEffects
               = <<PutAs("node_connected", self.peer_name_, "self", RECV_NAME, 2),
                   SentAs(<<0, 3, 115, 111, 107>>, RECV_NAME, 2),
                   SentAs(ChallengeFrame(self.my_challenge_.n), RECV_NAME, 2)>>
    /\ (last.op = "consume" /\ last.pre.state_ = WAIT_CHALLENGE_REPLY
          /\ self.state_ = CONNECTED)
       => /\ Len(NewEffects) = 1
          /\ NewEffects[1]
               = SentAs(<<0, 17, ord_a>> \o SubSeq(NewEffects[1].data, 4, 19),
                        WAIT_CHALLENGE_REPLY, 2)
          /\ Len(NewEffects[1].data) = 19
          /\ self.packet_len_size_ = 4
    /\ Len(Puts(self.out, "node_connected")) <= 1
    /\ self.state_ \in {WAIT_CHALLENGE_REPLY, CONNECTED}
       => Len(Puts(self.out, "node_connected")) = 1

\* C4 happens: the handshake is through
C4_Witness ==
    /\ self.state_ = CONNECTED
    /\ last.op = "consume"
    /\ last.pre.state_ = WAIT_CHALLENGE_REPLY
    /\ Len(Puts(self.out, "node_connected")) = 1
    /\ Len(Only(self.out, "sendall")) = 3

\* C5: on a connection whose handshake was completed the node is put
\* node_disconnected(peer_name_) exactly once: not before the loop has
\* ended, whatever frames, faults and commands came after the handshake, and
\* once when it has called on_connection_lost.
C5_DisconnectedOnce ==
    Established =>
        /\ Len(Puts(self.out, "node_disconnected"))
             = (IF pc = "closed" THEN 1 ELSE 0)
        /\ \A i \in 1..Len(self.out) :
              (self.out[i].op = "put" /\ self.out[i].what = "node_disconnected")
                  => self.out[i].name = self.peer_name_

\* C5 happens: a connection that was CONNECTED has been lost
C5_Witness ==
    /\ Established
    /\ pc = "closed"
    /\ last.op = "on_connection_lost"
    /\ last.pre.state_ = CONNECTED
    /\ Len(Puts(self.out, "node_disconnected")) = 1

\* C6: an empty frame consumed in CONNECTED is answered by sending one empty
\* frame with a 4 byte prefix and by nothing else: no call or put to the
\* node; the stage stays CONNECTED and consume returns the bytes after the
\* frame.
C6_KeepAlive ==
    ( /\ ConsumedFrameIn(CONNECTED)
      /\ last.pre.packet_len_size_ = 4
      /\ LastPacket = <<>> )
    => /\ NewEffects = <<SentAs(<<0, 0, 0, 0>>, CONNECTED, 4)>>
       /\ self.state_ = CONNECTED
       /\ last.ret.v = "bytes"
       /\ last.ret.b = LastRest
       /\ collected = LastRest
       /\ pc = "run"

\* C6 happens: a keepalive has been consumed
C6_Witness ==
    /\ ConsumedFrameIn(CONNECTED)
    /\ SubSeq(last.data, 1, 4) = <<0, 0, 0, 0>>
    /\ Len(NewEffects) = 1

\* C7: a 'p' frame consumed in CONNECTED whose control term is a tuple of
\* four elements with tag 2 (SEND) or 6 (REG_SEND) makes exactly one call of
\* the node: send(sender = ctrl[1], receiver = ctrl[3], message = the term
\* decoded from the bytes after the control term, None when there are none);
\* nothing else is done for the frame.
C7_SendDispatched ==
    ( /\ ConsumedPassThrough
      /\ Len(LastControl.e) = 4
      /\ (HasTag(LastControl, CONTROL_TERM_SEND)
            \/ HasTag(LastControl, CONTROL_TERM_REG_SEND)) )
    => /\ NewEffects
            = <<CallAs("send",
                       <<LastControl.e[2], LastControl.e[4], LastPayload>>,
                       CONNECTED, 4)>>
       /\ last.ret.v = "bytes"
       /\ last.ret.b = LastRest

\* C7 happens: the SEND frame of pid 1 to pid 2 with payload hello has been
\* dispatched, and one without a payload
C7_Witness ==
    /\ ConsumedFrameIn(CONNECTED)
    /\ \/ /\ last.data = PassThrough(CtrlSend, AtomHello)
          /\ NewEffects = <<CallAs("send", <<Pid1, Pid2, AtomHello>>, CONNECTED, 4)>>
       \/ /\ last.data = PassThrough(CtrlRegSend, Pid1)
          /\ NewEffects = <<CallAs("send", <<Pid1, AtomShell, Pid1>>, CONNECTED, 4)>>

\* C8 (as claimed): a 'p' frame consumed in CONNECTED whose control term is
\* (21, from_pid, to_pid, ref, reason) with no payload results in a call of
\* the node carrying the exit, and is not logged as unhandled.
C8_MonitorExitDelivered ==
    ( /\ ConsumedPassThrough
      /\ Len(LastControl.e) = 5
      /\ HasTag(LastControl, CONTROL_TERM_MONITOR_P_EXIT)
      /\ LastPayload = TNone )
    => /\ Only(NewEffects, "call") # <<>>
       /\ Only(NewEffects, "ERROR") = <<>>

\* C9: a 'p' frame consumed in CONNECTED whose control term is a tuple with
\* a first element other than 2, 6, 19, 20 and 21 is logged and dropped: no
\* call or put to the node, nothing sent, the stage stays CONNECTED and
\* consume returns the bytes after the frame.
C9_UnhandledTagDropped ==
    ( /\ ConsumedPassThrough
      /\ LastControl.k = "tuple"
      /\ Len(LastControl.e) >= 1
      /\ \A tag \in {CONTROL_TERM_SEND, CONTROL_TERM_REG_SEND,
                     CONTROL_TERM_MONITOR_P, CONTROL_TERM_DEMONITOR_P,
                     CONTROL_TERM_MONITOR_P_EXIT} : ~HasTag(LastControl, tag) )
    => /\ Len(NewEffects) = 1
       /\ NewEffects[1].op = "ERROR"
       /\ NewEffects[1].what = "Unhandled 'p' message"
       /\ FieldsUnchanged
       /\ self.state_ = CONNECTED
       /\ last.ret.v = "bytes"
       /\ last.ret.b = LastRest
       /\ pc = "run"

\* C9 happens: a frame with a control tuple of tag 1 has been consumed
C9_Witness ==
    /\ ConsumedPassThrough
    /\ LastControl = CtrlLink
    /\ LastPayload = AtomHello
    /\ last.ret.v = "bytes"

\* C10 (as claimed): a 'p' frame consumed in CONNECTED whose control term is
\* no tuple makes consume return None, with no call of the node.
C10_NonTupleReturnsNone ==
    ( /\ ConsumedPassThrough
      /\ LastControl.k # "tuple" )
    => /\ last.ret.v = "None"
       /\ Only(NewEffects, "call") = <<>>

\* the last step was handle_one_inbox_message, and it sent one frame
InboxFrameSent ==
    /\ last.op = "handle_one_inbox_message"
    /\ Len(Only(NewEffects, "sendall")) = 1

\* what follows the 4 byte prefix of that frame; its control term, decoded
\* from what follows 'p'; and the bytes after the control term
InboxSent == Only(NewEffects, "sendall")[1].data
InboxContent == SubSeq(InboxSent, 5, Len(InboxSent))
InboxControl == binary_to_term(SubSeq(InboxContent, 2, Len(InboxContent)))

\* C11 (as claimed): every frame sent for a command of the node is 'p',
\* then the encoded control term, then possibly one encoded payload term, and
\* the payload is there if and only if the control tag is 2 (SEND) or 6
\* (REG_SEND): so for every send command, and for no monitor_p_exit command.
C11_PayloadIffSend ==
    InboxFrameSent =>
        /\ Len(InboxSent) >= 5
        /\ PrefixLen(InboxSent, 4) = Len(InboxContent)
        /\ InboxContent[1] = ord_p
        /\ InboxControl.ok
        /\ InboxControl.tail # <<>> =>
              /\ binary_to_term(InboxControl.tail).ok
              /\ binary_to_term(InboxControl.tail).tail = <<>>
        /\ InboxControl.tail # <<>>
              <=> \/ HasTag(InboxControl.term, CONTROL_TERM_SEND)
                  \/ HasTag(InboxControl.term, CONTROL_TERM_REG_SEND)
        /\ last.m.tag = "send" => InboxControl.tail # <<>>
        /\ last.m.tag = "monitor_p_exit" => InboxControl.tail = <<>>

\* C12 (as claimed): in every state the prefix width is 4 if and only if
\* the stage is CONNECTED, and 2 in every other stage, also after a
\* connection that was CONNECTED has been lost.
C12_WidthIffConnected ==
    /\ self.packet_len_size_ \in {2, 4}
    /\ self.packet_len_size_ = 4 <=> self.state_ = CONNECTED

\* C13: the stage changes only by one step forward, DISCONNECTED to
\* RECV_NAME in on_connected and then to WAIT_CHALLENGE_REPLY and to
\* CONNECTED in consume, or to DISCONNECTED in on_connection_lost; and a
\* complete frame given to consume after the connection has been lost makes
\* consume return None, with no field changed, nothing sent, put or called.
C13_StageForwardOnly ==
    /\ self.state_ # last.pre.state_ =>
          \/ /\ last.op = "on_connection_lost"
             /\ self.state_ = DISCONNECTED
          \/ /\ last.op = "on_connected"
             /\ last.pre.state_ = DISCONNECTED
             /\ self.state_ = RECV_NAME
          \/ /\ last.op = "consume"
             /\ last.pre.state_ \in {RECV_NAME, WAIT_CHALLENGE_REPLY}
             /\ self.state_ = last.pre.state_ + 1
             /\ HasFrame(last.data, last.pre.packet_len_size_)
    /\ ConsumedFrameIn(DISCONNECTED) =>
          /\ last.ret.v = "None"
          /\ NewEffects = <<>>
          /\ FieldsUnchanged

\* C13 happens: a connection that was CONNECTED and was lost is given a
\* complete frame
C13_Witness ==
    /\ ConsumedFrameIn(DISCONNECTED)
    /\ Established
    /\ pc = "closed"
    /\ last.data = PassThrough(CtrlSend, AtomHello)
    /\ last.ret.v = "None"

\* the byte a frame must start with in stage st
ExpectedFirstByte(st) ==
    IF st = RECV_NAME THEN ord_n
    ELSE IF st = WAIT_CHALLENGE_REPLY THEN ord_r
    ELSE ord_p

\* C14: a complete frame that is not empty and does not start with the byte
\* of the stage ('n' in RECV_NAME, 'r' in WAIT_CHALLENGE_REPLY, 'p' in
\* CONNECTED) makes consume return None; stage, prefix width, peer_name_,
\* peer_flags_ and my_challenge_ stay as they were, nothing is sent on the
\* socket and nothing is put to or called on the node.
C14_UnexpectedFirstByte ==
    \A st \in {RECV_NAME, WAIT_CHALLENGE_REPLY, CONNECTED} :
        ( /\ ConsumedFrameIn(st)
          /\ LastPacket # <<>>
          /\ LastPacket[1] # ExpectedFirstByte(st) )
        => /\ last.ret.v = "None"
           /\ FieldsUnchanged
           /\ Only(NewEffects, "sendall") = <<>>
           /\ Only(NewEffects, "put") = <<>>
           /\ Only(NewEffects, "call") = <<>>
           /\ pc = "closing"

\* C14 happens: a frame with a 4 byte prefix that starts with 'x' has been
\* consumed in CONNECTED
C14_Witness ==
    /\ ConsumedFrameIn(CONNECTED)
    /\ last.data = Frame4(<<120, 1>>)
    /\ last.ret.v = "None"

\* C15: when the buffer holds fewer bytes than the prefix width, or a whole
\* prefix that declares more bytes than are buffered after it, consume
\* returns the buffer as it is; on_packet is not called: no field of the
\* connection changes and nothing is sent, put, called or logged.
C15_IncompleteFrameKept ==
    ( /\ last.op = "consume"
      /\ ~HasFrame(last.data, last.pre.packet_len_size_) )
    => /\ last.ret.v = "bytes"
       /\ last.ret.b = last.data
       /\ self = last.pre

\* C15 happens: consume has been given three bytes of a 4 byte prefix
C15_Witness ==
    /\ last.op = "consume"
    /\ last.pre.packet_len_size_ = 4
    /\ Len(last.data) = 3
    /\ last.ret.b = last.data
    /\ collected = last.data

\* C16: consume on a buffer that starts with a complete frame gives that
\* frame, and no more, to on_packet once: the connection is then as on_packet
\* leaves it; when on_packet returned True consume returns the bytes after
\* the frame, which the loop keeps and gives to consume again before it
\* reads more.  The next frame is so cut with the prefix width on_packet
\* left: 4 for a frame that follows the CHALLENGE_REPLY in the buffer.
C16_OneFramePerCall ==
    ( /\ last.op = "consume"
      /\ HasFrame(last.data, last.pre.packet_len_size_) )
    => /\ \E rnd \in RandomChallenges :
             LET r == on_packet(last.pre, LastPacket, rnd) IN
             /\ self = r.c
             /\ r.v = "True" <=> last.ret.v = "bytes"
       /\ last.ret.v = "bytes" =>
             /\ last.data
                  = SubSeq(last.data, 1, last.pre.packet_len_size_)
                      \o LastPacket \o last.ret.b
             /\ collected = last.ret.b
             /\ dirty
             /\ pc = "run"
       /\ ( /\ last.pre.state_ = WAIT_CHALLENGE_REPLY
            /\ self.state_ = CONNECTED )
          => /\ self.packet_len_size_ = 4
             /\ collected = LastRest

\* C16 happens: a frame with a 4 byte prefix that came in one recv with the
\* CHALLENGE_REPLY has been consumed, right after the CHALLENGE_ACK was sent
C16_Witness ==
    /\ ConsumedFrameIn(CONNECTED)
    /\ ninputs = 2
    /\ last.pre.out # <<>>
    /\ IsAck(last.pre.out[Len(last.pre.out)])
    /\ last.data = PassThrough(CtrlSend, AtomHello)
    /\ NewEffects = <<CallAs("send", <<Pid1, Pid2, AtomHello>>, CONNECTED, 4)>>
    /\ last.ret.v = "bytes"
    /\ last.ret.b = <<>>

\* C17 (as claimed): in every state whose stage is WAIT_CHALLENGE_REPLY or
\* CONNECTED, peer_name_ is a string that is not empty.
C17_PeerNameNonEmpty ==
    self.state_ \in {WAIT_CHALLENGE_REPLY, CONNECTED} =>
        /\ self.peer_name_.py = "str"
        /\ self.peer_name_.s # <<>>

\* C18 (as claimed): whatever the node enqueues and whenever, everything
\* written to the socket while the stage is not CONNECTED is a frame with a
\* 2 byte length prefix and is no 'p' frame; so is every frame written before
\* the CHALLENGE_ACK.
C18_NoPassThroughBeforeConnected ==
    \A i \in 1..Len(self.out) :
        ( /\ self.out[i].op = "sendall"
          /\ \/ self.out[i].st # CONNECTED
             \/ \E j \in (i + 1)..Len(self.out) : IsAck(self.out[j]) )
        => /\ Len(self.out[i].data) >= 2
           /\ PrefixLen(self.out[i].data, 2) = Len(self.out[i].data) - 2
           /\ Len(self.out[i].data) >= 3 => self.out[i].data[3] # ord_p

\* another connection in the stage and with the prefix width of this one,
\* that has done nothing yet
Receiver == [self EXCEPT !.out = <<>>, !.inbox_ = <<>>]

\* C19 (as claimed): the frame handle_one_inbox_message sends for a
\* command ('send', dst, msg), given to consume of another connection that is
\* CONNECTED, is accepted (consume returns the empty rest) and makes exactly
\* one call of the node: send, with receiver dst and message msg.
C19_SendRoundTrip ==
    ( /\ InboxFrameSent
      /\ last.m.tag = "send"
      /\ self.state_ = CONNECTED )
    => \A rnd \in RandomChallenges :
          LET r == consume(Receiver, InboxSent, rnd) IN
          /\ r.v = "bytes"
          /\ r.b = <<>>
          /\ Len(r.c.out) = 1
          /\ r.c.out[1].op = "call"
          /\ r.c.out[1].what = "send"
          /\ Len(r.c.out[1].args) = 3
          /\ r.c.out[1].args[2] = last.m.args[1]
          /\ r.c.out[1].args[3] = last.m.args[2]

\* C20 (as claimed): every node_disconnected(name) put to the node comes
\* after a node_connected(name, self) of the same name; a connection lost
\* before it accepted a NAME frame puts no node_disconnected.
C20_DisconnectedAfterConnected ==
    \A j \in 1..Len(self.out) :
        (self.out[j].op = "put" /\ self.out[j].what = "node_disconnected")
        => \E i \in 1..(j - 1) :
              /\ self.out[i].op = "put"
              /\ self.out[i].what = "node_connected"
              /\ self.out[i].name = self.out[j].name

====
